---- MODULE Spec2Model ----
(***************************************************************************)
(* Offline state commands of ipfs-cluster-service                          *)
(* (cmd/ipfs-cluster-service/state.go): upgrade, export, stateImport,      *)
(* validateVersion, cleanupState and the restoreStateFromDisk routine they *)
(* share, run one at a time against the consensus data directory.          *)
(*                                                                         *)
(* The collaborators that live outside state.go (raft.LastStateRaw,        *)
(* raft.SnapshotSave, raft.CleanupRaft, mapstate, pstoremgr, the JSON      *)
(* codec of api.Pin) are modelled from their contract in spec.md par. 6.   *)
(***************************************************************************)
EXTENDS Integers, Sequences, FiniteSets, TLC

\* ------------------------------------------------------------ bounds
\* longest raw snapshot the consensus runtime left behind (in bytes)
MaxLen == 2
\* content identifiers are 1..MaxCid
MaxCid == 2
\* peer identities are 1..MaxPeer
MaxPeer == 2
\* longest list of records in an import source
MaxPins == 2

\* ------------------------------------------------------------ values
\* mapstate.Version, the schema version this binary understands
Version == 2
\* the metadata field the 1 -> 2 migration adds to every record
DefaultRpl == 0
\* the array delimiters of the interchange format
LBRACKET == 8
RBRACKET == 9

\* the local node's identity, cfgs.clusterCfg.ID
Self == 1

\* header bytes cover an unknown version 0, the older version, the current
\* one and a newer one
Bytes == 0..(Version + 1)
CIDs == 1..MaxCid
Rpls == {DefaultRpl, DefaultRpl + 1}
PeerIDs == 1..MaxPeer

nil == "nil"
errNoSnapshot == "no snapshot found"
errOutdated == "outdated state version stored"
errConfig == "config load error"
errIO == "snapshot i/o error"
errRead == "read error"
errDecode == "decode error"
errMigrate == "migration error"
errJSON == "json error"
errAdd == "add error"
errSave == "snapshot save error"
errCleanup == "cleanup error"
errWrite == "write error"

\* sequences over S of length at most n
SeqsUpTo(S, n) == UNION {[1..k -> S] : k \in 0..n}

\* ------------------------------------------------------------ mapstate
\* A record (pin) is <<cid, rpl>>; a state holds at most one record per cid.
Pins == CIDs \X Rpls

NewMapState == [version |-> Version, pins |-> {}]
NilState == [version |-> -1, pins |-> {}]

GetVersion(st) == st.version

\* PinMap[cid] = pin
Put(pins, p) == {q \in pins : q[1] # p[1]} \cup {p}

\* mapstate.Add: fails for the records the container rejects
Add(st, p, addFail) ==
    IF p[1] \in addFail
    THEN [err |-> errAdd, state |-> st]
    ELSE [err |-> nil, state |-> [st EXCEPT !.pins = Put(st.pins, p)]]

\* mapstate.List: the records in one of the orders map iteration may give
Lists(st) ==
    {l \in [1..Cardinality(st.pins) -> st.pins] :
        \A i, j \in 1..Cardinality(st.pins) : i # j => l[i] # l[j]}

\* the body of a snapshot at the current version: cid, rpl per record
RECURSIVE MarshalPins(_)
MarshalPins(pins) ==
    IF pins = {} THEN <<>>
    ELSE LET p == CHOOSE q \in pins : \A r \in pins : q[1] <= r[1]
         IN <<p[1], p[2]>> \o MarshalPins(pins \ {p})

\* mapstate.Marshal: the version header, then the body
Marshal(st) == <<st.version>> \o MarshalPins(st.pins)

RECURSIVE DecodePins(_, _)
DecodePins(body, acc) ==
    IF body = <<>> THEN [ok |-> TRUE, pins |-> acc]
    ELSE IF Len(body) < 2 \/ body[1] \notin CIDs \/ body[2] \notin Rpls
         THEN [ok |-> FALSE, pins |-> {}]
         ELSE DecodePins(SubSeq(body, 3, Len(body)), Put(acc, <<body[1], body[2]>>))

\* the body of a version 1 snapshot: one cid per record
RECURSIVE DecodePinsV1(_, _)
DecodePinsV1(body, acc) ==
    IF body = <<>> THEN [ok |-> TRUE, pins |-> acc]
    ELSE IF body[1] \notin CIDs
         THEN [ok |-> FALSE, pins |-> {}]
         ELSE DecodePinsV1(Tail(body), Put(acc, <<body[1], DefaultRpl>>))

\* ------------------------------------------------------------ readers
\* An io.Reader: a buffer, a cursor, and whether the stream fails on read.
NewReader(full) == [buf |-> full, pos |-> 0, bad |-> FALSE]
NilReader == [buf |-> <<>>, pos |-> 0, bad |-> TRUE]
Remaining(r) == SubSeq(r.buf, r.pos + 1, Len(r.buf))

\* ioutil.ReadAll
ReadAll(r) ==
    IF r.bad THEN [err |-> errRead, full |-> <<>>]
    ELSE [err |-> nil, full |-> Remaining(r)]

\* mapstate.Unmarshal with the current decoder: reads the version header, and
\* the body only when the header is the current version; the cursor advances
\* past what was read.
Unmarshal(r) ==
    LET rest == Remaining(r) IN
    IF r.bad THEN [err |-> errRead, state |-> NewMapState, r |-> r]
    ELSE IF rest = <<>> THEN [err |-> errDecode, state |-> NewMapState, r |-> r]
    ELSE IF rest[1] # Version
         THEN [err |-> nil,
               state |-> [version |-> rest[1], pins |-> {}],
               r |-> [r EXCEPT !.pos = r.pos + 1]]
         ELSE LET d == DecodePins(Tail(rest), {}) IN
              IF d.ok
              THEN [err |-> nil,
                    state |-> [version |-> Version, pins |-> d.pins],
                    r |-> [r EXCEPT !.pos = Len(r.buf)]]
              ELSE [err |-> errDecode, state |-> NewMapState, r |-> r]

\* mapstate.Migrate: decodes what the reader still holds with the old
\* encoding rules and upgrades it to the current version.
Migrate(st, r) ==
    LET rest == Remaining(r) IN
    IF r.bad \/ rest = <<>> \/ rest[1] \notin 1..(Version - 1)
    THEN [err |-> errMigrate, state |-> st]
    ELSE LET d == DecodePinsV1(Tail(rest), {}) IN
         IF d.ok
         THEN [err |-> nil, state |-> [version |-> Version, pins |-> d.pins]]
         ELSE [err |-> errMigrate, state |-> st]

\* ------------------------------------------------------------ interchange
Flatten(l) == [i \in 1..(2 * Len(l)) |-> l[(i + 1) \div 2][2 - (i % 2)]]

\* json.Encoder.Encode of a list of records: an array of objects
jsonEncode(l) == <<LBRACKET>> \o Flatten(l) \o <<RBRACKET>>

RECURSIVE jsonPins(_, _)
jsonPins(rest, acc) ==
    IF rest = <<>> THEN [err |-> errJSON, pins |-> <<>>]
    ELSE IF rest[1] = RBRACKET THEN [err |-> nil, pins |-> acc]
    ELSE IF Len(rest) < 2 \/ rest[1] \notin CIDs \/ rest[2] \notin Rpls
         THEN [err |-> errJSON, pins |-> <<>>]
         ELSE jsonPins(SubSeq(rest, 3, Len(rest)), Append(acc, <<rest[1], rest[2]>>))

\* json.Decoder.Decode into []*api.Pin: the first JSON value of the source
jsonDecode(src) ==
    IF src = <<>> \/ src[1] # LBRACKET
    THEN [err |-> errJSON, pins |-> <<>>]
    ELSE jsonPins(Tail(src), <<>>)

\* ------------------------------------------------------------ collaborators
\* raft.LastStateRaw: what it may return for the data directory d. A read
\* failure is reported with or without the snapshot being known to exist.
LastStateRaw(d) ==
    {[exists |-> FALSE, err |-> errIO, r |-> NilReader]}
    \cup (IF d.exists
          THEN {[exists |-> TRUE, err |-> e, r |-> [NewReader(d.raw) EXCEPT !.bad = b]] :
                    e \in {nil, errIO}, b \in BOOLEAN}
          ELSE {[exists |-> FALSE, err |-> nil, r |-> NilReader]})

\* raft.SnapshotSave: writes the state as the latest snapshot, or fails as a
\* unit and leaves the data directory as it was.
SnapshotSave(d, st, peers, saveErr) ==
    IF saveErr
    THEN [err |-> errSave, disk |-> d]
    ELSE [err |-> nil, disk |-> [exists |-> TRUE, raw |-> Marshal(st)]]

\* raft.CleanupRaft: rotates the data folder away, or fails and leaves it.
CleanupRaft(d, cleanErr) ==
    IF cleanErr
    THEN [err |-> errCleanup, disk |-> d]
    ELSE [err |-> nil, disk |-> [exists |-> FALSE, raw |-> <<>>]]

\* pstoremgr.LoadPeerstore through PeersFromMultiaddrs: the known identities
Peerstores ==
    {s \in SeqsUpTo(PeerIDs, MaxPeer) : \A i, j \in 1..Len(s) : i < j => s[i] < s[j]}

\* ------------------------------------------------------------ state.go
\* if !snapExists { err = errNoSnapshot }
snapshotError(snapExists, err) == IF ~snapExists THEN errNoSnapshot ELSE err

\* mutant: the comparison inverted
isCurrentVersion_inverted(st) == GetVersion(st) # Version

\* mutant: every version up to the current one taken as current
isCurrentVersion_lenient(st) == GetVersion(st) <= Version

\* mutant: no snapshot is taken as current, so every upgrade migrates and saves
isCurrentVersion_never(st) == GetVersion(st) > Version

\* stateFromSnap.GetVersion() == mapstate.Version
isCurrentVersion(st) == GetVersion(st) = Version

\* mutant: the cursor of the version probe handed on to the migration
migrationReader_reused(full, reader1) == reader1

\* reader2 := bytes.NewReader(full)
migrationReader(full, reader1) == NewReader(full)

\* mutant: a failed migration is not fatal, the state of the version probe
\* is returned without error
restoreStateFromDisk_bestEffort(cfgErr, lsr) ==
    LET fail(e, mig) ==
            [state |-> NilState, current |-> FALSE, err |-> e, migrate |-> mig]
    IN
    IF cfgErr THEN fail(errConfig, <<>>)
    ELSE LET err == snapshotError(lsr.exists, lsr.err) IN
    IF err # nil THEN fail(err, <<>>)
    ELSE LET ra == ReadAll(lsr.r) IN
    IF ra.err # nil THEN fail(ra.err, <<>>)
    ELSE LET reader1 == NewReader(ra.full)
             u == Unmarshal(reader1)
         IN
    IF u.err # nil THEN fail(u.err, <<>>)
    ELSE IF isCurrentVersion(u.state)
    THEN [state |-> u.state, current |-> TRUE, err |-> nil, migrate |-> <<>>]
    ELSE LET reader2 == migrationReader(ra.full, u.r)
             m == Migrate(u.state, reader2)
         IN
    [state |-> m.state, current |-> FALSE, err |-> nil, migrate |-> <<reader2>>]

\* mutant: after the migration the state of the version probe is returned
restoreStateFromDisk_probeState(cfgErr, lsr) ==
    LET fail(e, mig) ==
            [state |-> NilState, current |-> FALSE, err |-> e, migrate |-> mig]
    IN
    IF cfgErr THEN fail(errConfig, <<>>)
    ELSE LET err == snapshotError(lsr.exists, lsr.err) IN
    IF err # nil THEN fail(err, <<>>)
    ELSE LET ra == ReadAll(lsr.r) IN
    IF ra.err # nil THEN fail(ra.err, <<>>)
    ELSE LET reader1 == NewReader(ra.full)
             u == Unmarshal(reader1)
         IN
    IF u.err # nil THEN fail(u.err, <<>>)
    ELSE IF isCurrentVersion(u.state)
    THEN [state |-> u.state, current |-> TRUE, err |-> nil, migrate |-> <<>>]
    ELSE LET reader2 == migrationReader(ra.full, u.r)
             m == Migrate(u.state, reader2)
         IN
    IF m.err # nil THEN fail(m.err, <<reader2>>)
    ELSE [state |-> u.state, current |-> FALSE, err |-> nil, migrate |-> <<reader2>>]

restoreStateFromDisk(cfgErr, lsr) ==
    LET fail(e, mig) ==
            [state |-> NilState, current |-> FALSE, err |-> e, migrate |-> mig]
    IN
    IF cfgErr THEN fail(errConfig, <<>>)
    ELSE LET err == snapshotError(lsr.exists, lsr.err) IN
    IF err # nil THEN fail(err, <<>>)
    ELSE LET ra == ReadAll(lsr.r) IN
    IF ra.err # nil THEN fail(ra.err, <<>>)
    ELSE LET reader1 == NewReader(ra.full)
             u == Unmarshal(reader1)
         IN
    IF u.err # nil THEN fail(u.err, <<>>)
    ELSE IF isCurrentVersion(u.state)
    THEN [state |-> u.state, current |-> TRUE, err |-> nil, migrate |-> <<>>]
    ELSE LET reader2 == migrationReader(ra.full, u.r)
             m == Migrate(u.state, reader2)
         IN
    IF m.err # nil THEN fail(m.err, <<reader2>>)
    ELSE [state |-> m.state, current |-> FALSE, err |-> nil, migrate |-> <<reader2>>]

\* mutant: the local identity left out of the membership list
raftPeers_noSelf(pstore, id) == pstore

\* append(ipfscluster.PeersFromMultiaddrs(pm.LoadPeerstore()), cfgs.clusterCfg.ID)
raftPeers(pstore, id) == Append(pstore, id)

\* for _, p := range pins { err = stateToImport.Add(ctx, p); if err != nil { return err } }
RECURSIVE addPins(_, _, _, _)
addPins(pins, st, added, addFail) ==
    IF pins = <<>> THEN [err |-> nil, state |-> st, added |-> added]
    ELSE LET a == Add(st, Head(pins), addFail) IN
         IF a.err # nil
         THEN [err |-> a.err, state |-> NilState, added |-> Append(added, Head(pins))]
         ELSE addPins(Tail(pins), a.state, Append(added, Head(pins)), addFail)

\* mutant: a record whose Add fails is skipped and the loop goes on
RECURSIVE addPinsSkipping(_, _, _, _)
addPinsSkipping(pins, st, added, addFail) ==
    IF pins = <<>> THEN [err |-> nil, state |-> st, added |-> added]
    ELSE LET a == Add(st, Head(pins), addFail) IN
         addPinsSkipping(Tail(pins), a.state, Append(added, Head(pins)), addFail)

importPins_skipFailed(pins, addFail) == addPinsSkipping(pins, NewMapState, <<>>, addFail)

\* mutant: the import starts from a state that already holds a record
stateToImport_seeded == [NewMapState EXCEPT !.pins = {<<1, DefaultRpl + 1>>}]

\* stateToImport := mapstate.NewMapState()
stateToImport == NewMapState

importPins(pins, addFail) == addPins(pins, stateToImport, <<>>, addFail)

\* mutant: only an older version counts as outdated
validateVersion_olderOnly(lsr) ==
    IF ~lsr.exists /\ lsr.err # nil
    THEN [err |-> lsr.err, log |-> {"error before reading latest snapshot"}]
    ELSE IF lsr.exists /\ lsr.err # nil
    THEN [err |-> lsr.err, log |-> {"snapshot potentially corrupt"}]
    ELSE IF lsr.exists /\ lsr.err = nil
    THEN LET u == Unmarshal(lsr.r) IN
         IF u.err # nil
         THEN [err |-> u.err, log |-> {"snapshot potentially corrupt"}]
         ELSE IF GetVersion(u.state) < Version
         THEN [err |-> errOutdated, log |-> {"out of date state; run state upgrade"}]
         ELSE [err |-> lsr.err, log |-> {}]
    ELSE [err |-> lsr.err, log |-> {}]

\* mutant: the return after a failed Unmarshal is missing, so the version of
\* the untouched fresh state is compared
validateVersion_noReturn(lsr) ==
    IF ~lsr.exists /\ lsr.err # nil
    THEN [err |-> lsr.err, log |-> {"error before reading latest snapshot"}]
    ELSE IF lsr.exists /\ lsr.err # nil
    THEN [err |-> lsr.err, log |-> {"snapshot potentially corrupt"}]
    ELSE IF lsr.exists /\ lsr.err = nil
    THEN LET u == Unmarshal(lsr.r) IN
         IF GetVersion(u.state) # Version
         THEN [err |-> errOutdated, log |-> {"out of date state; run state upgrade"}]
         ELSE [err |-> lsr.err,
               log |-> IF u.err # nil THEN {"snapshot potentially corrupt"} ELSE {}]
    ELSE [err |-> lsr.err, log |-> {}]

\* the decision of validateVersion: the error returned and the lines logged
validateVersion(lsr) ==
    IF ~lsr.exists /\ lsr.err # nil
    THEN [err |-> lsr.err, log |-> {"error before reading latest snapshot"}]
    ELSE IF lsr.exists /\ lsr.err # nil
    THEN [err |-> lsr.err, log |-> {"snapshot potentially corrupt"}]
    ELSE IF lsr.exists /\ lsr.err = nil
    THEN LET u == Unmarshal(lsr.r) IN
         IF u.err # nil
         THEN [err |-> u.err, log |-> {"snapshot potentially corrupt"}]
         ELSE IF GetVersion(u.state) # Version
         THEN [err |-> errOutdated, log |-> {"out of date state; run state upgrade"}]
         ELSE [err |-> lsr.err, log |-> {}]
    ELSE [err |-> lsr.err, log |-> {}]

\* ------------------------------------------------------------ the machine
VARIABLES
    disk,       \* the consensus data directory: [exists, raw] of the latest snapshot
    op,         \* the command that has just run, "idle" between commands
    inp,        \* what the environment gave that command
    ret,        \* what it returned: [err, state, current]
    calls,      \* the collaborator calls it made
    log,        \* the lines it logged
    sink,       \* what export wrote to its io.Writer
    sinkFresh,  \* history: sink is an export of the snapshot now on disk
    upgraded,   \* history: the last commands were upgrades, the first of which
                \* migrated pins and the later ones succeeded: [on, pins]
    saver,      \* the Saver: [save], 0 for a nil channel, else an index of chans
    chans,      \* the channels made so far: [cap, len]
    notifier,   \* the goroutine calling NotifySave: [pc, out]
    listener,   \* the goroutine calling SaveCh and receiving: [pc, ch, waiting]
    strIn,      \* the arguments of the last config.String call
    strOut      \* what it returned for the two values of the hidden field

vars == <<disk, op, inp, ret, calls, log, sink, sinkFresh, upgraded>>

\* the state of src/config/util.go, which no command of state.go touches
utilVars == <<saver, chans, notifier, listener, strIn, strOut>>

NotUpgraded == [on |-> FALSE, pins |-> {}]

InitUtil ==
    /\ saver = [save |-> 0]
    /\ chans = <<>>
    /\ notifier = [pc |-> "idle", out |-> "none"]
    /\ listener = [pc |-> "idle", ch |-> 0, waiting |-> FALSE]
    /\ strIn = [called |-> FALSE, path |-> <<>>, hidden |-> <<>>]
    /\ strOut = [a |-> <<>>, b |-> <<>>]

NoInput ==
    [cfgErr |-> FALSE, lsr |-> [exists |-> FALSE, err |-> nil, r |-> NilReader],
     cfgErr2 |-> FALSE, pstore |-> <<>>, saveErr |-> FALSE,
     source |-> <<>>, addFail |-> {}, fresh |-> FALSE, writeErr |-> FALSE,
     cleanErr |-> FALSE, prev |-> "none", cancelled |-> FALSE]
NoRet == [err |-> nil, state |-> NilState, current |-> FALSE]
NoCalls == [save |-> <<>>, migrate |-> <<>>, add |-> <<>>, exportState |-> <<>>, cleanup |-> 0]

InitDisks ==
    {[exists |-> FALSE, raw |-> <<>>]}
    \cup {[exists |-> TRUE, raw |-> b] : b \in SeqsUpTo(Bytes, MaxLen)}

Init ==
    /\ disk \in InitDisks
    /\ op = "idle"
    /\ inp = NoInput
    /\ ret = NoRet
    /\ calls = NoCalls
    /\ log = {}
    /\ sink = <<>>
    /\ sinkFresh = FALSE
    /\ upgraded = NotUpgraded
    /\ InitUtil

\* restoreStateFromDisk called on its own
restore ==
    /\ op = "idle"
    /\ UNCHANGED utilVars
    /\ \E cfgErr \in BOOLEAN, lsr \in LastStateRaw(disk) :
        LET rs == restoreStateFromDisk(cfgErr, lsr) IN
        /\ (cfgErr => lsr = CHOOSE x \in LastStateRaw(disk) : TRUE)
        /\ op' = "restore"
        /\ upgraded' = upgraded
        /\ inp' = [NoInput EXCEPT !.cfgErr = cfgErr, !.lsr = lsr]
        /\ ret' = [err |-> rs.err, state |-> rs.state, current |-> rs.current]
        /\ calls' = [NoCalls EXCEPT !.migrate = rs.migrate]
        /\ log' = {}
        /\ UNCHANGED <<disk, sink, sinkFresh>>

\* upgrade under a context whose cancellation, once the restore stage has
\* completed, is one of cancels; the code never consults ctx
upgradeUnder(cancels) ==
    /\ op = "idle"
    /\ UNCHANGED utilVars
    /\ \E cfgErr \in BOOLEAN, lsr \in LastStateRaw(disk), cfgErr2 \in BOOLEAN,
          pstore \in Peerstores, saveErr \in BOOLEAN, cancelled \in cancels :
        LET rs == restoreStateFromDisk(cfgErr, lsr)
            peers == raftPeers(pstore, Self)
            sv == SnapshotSave(disk, rs.state, peers, saveErr)
            in == [NoInput EXCEPT !.cfgErr = cfgErr, !.lsr = lsr, !.cfgErr2 = cfgErr2,
                                  !.pstore = pstore, !.saveErr = saveErr,
                                  !.cancelled = cancelled]
        IN
        /\ (cfgErr => lsr = CHOOSE x \in LastStateRaw(disk) : TRUE)
        /\ (rs.err # nil \/ rs.current => ~cfgErr2)
        /\ (rs.err # nil \/ rs.current \/ cfgErr2 => pstore = <<>> /\ ~saveErr /\ ~cancelled)
        /\ op' = "upgrade"
        /\ inp' = in
        /\ upgraded' = (IF rs.err = nil /\ ~rs.current /\ ~cfgErr2 /\ sv.err = nil
                        THEN [on |-> TRUE, pins |-> rs.state.pins]
                        ELSE IF rs.err = nil /\ rs.current THEN upgraded
                        ELSE NotUpgraded)
        /\ sink' = sink
        /\ IF rs.err # nil
           THEN /\ ret' = [err |-> rs.err, state |-> rs.state, current |-> rs.current]
                /\ calls' = [NoCalls EXCEPT !.migrate = rs.migrate]
                /\ log' = {}
                /\ UNCHANGED <<disk, sinkFresh>>
           ELSE IF rs.current
           THEN /\ ret' = [err |-> nil, state |-> rs.state, current |-> rs.current]
                /\ calls' = [NoCalls EXCEPT !.migrate = rs.migrate]
                /\ log' = {"skipping migration of up-to-date state"}
                /\ UNCHANGED <<disk, sinkFresh>>
           ELSE IF cfgErr2
           THEN /\ ret' = [err |-> errConfig, state |-> rs.state, current |-> rs.current]
                /\ calls' = [NoCalls EXCEPT !.migrate = rs.migrate]
                /\ log' = {}
                /\ UNCHANGED <<disk, sinkFresh>>
           ELSE /\ ret' = [err |-> sv.err, state |-> rs.state, current |-> rs.current]
                /\ calls' = [NoCalls EXCEPT !.migrate = rs.migrate,
                                            !.save = <<[state |-> rs.state, peers |-> peers]>>]
                /\ log' = {}
                /\ disk' = sv.disk
                /\ sinkFresh' = (sinkFresh /\ sv.err # nil)

\* upgrade under a context that is never cancelled
upgrade == upgradeUnder({FALSE})

\* upgrade under a context that may be cancelled
upgradeCancellable == upgradeUnder(BOOLEAN)

\* mutant: the first listed record is left out of the encoding
exportState_dropsFirst(list) == jsonEncode(IF list = <<>> THEN list ELSE Tail(list))

\* what the data directory held when a command started
snapshotKind(d) ==
    IF ~d.exists THEN "absent"
    ELSE IF d.raw # <<>> /\ d.raw[1] = Version /\ DecodePins(Tail(d.raw), {}).ok
    THEN "current"
    ELSE IF d.raw # <<>> /\ d.raw[1] \in 1..(Version - 1) /\ DecodePinsV1(Tail(d.raw), {}).ok
    THEN "outdated"
    ELSE "undecodable"

\* exportState: state.List, then the JSON encoding written to w
exportState(list) == jsonEncode(list)

\* mutant: export persists the state it restored
export_saving ==
    /\ op = "idle"
    /\ UNCHANGED utilVars
    /\ \E cfgErr \in BOOLEAN, lsr \in LastStateRaw(disk) :
        LET rs == restoreStateFromDisk(cfgErr, lsr)
            peers == raftPeers(<<>>, Self)
            sv == SnapshotSave(disk, rs.state, peers, FALSE)
        IN
        /\ (cfgErr => lsr = CHOOSE x \in LastStateRaw(disk) : TRUE)
        /\ op' = "export"
        /\ upgraded' = upgraded
        /\ inp' = [NoInput EXCEPT !.cfgErr = cfgErr, !.lsr = lsr]
        /\ log' = {}
        /\ ret' = [err |-> rs.err, state |-> rs.state, current |-> rs.current]
        /\ IF rs.err # nil
           THEN /\ calls' = [NoCalls EXCEPT !.migrate = rs.migrate]
                /\ UNCHANGED <<disk, sink, sinkFresh>>
           ELSE /\ calls' = [NoCalls EXCEPT !.migrate = rs.migrate,
                                            !.exportState = <<rs.state>>,
                                            !.save = <<[state |-> rs.state, peers |-> peers]>>]
                /\ \E list \in Lists(rs.state) : sink' = exportState(list)
                /\ sinkFresh' = TRUE
                /\ disk' = sv.disk

export ==
    /\ op = "idle"
    /\ UNCHANGED utilVars
    /\ \E cfgErr \in BOOLEAN, lsr \in LastStateRaw(disk), writeErr \in BOOLEAN :
        LET rs == restoreStateFromDisk(cfgErr, lsr) IN
        /\ (cfgErr => lsr = CHOOSE x \in LastStateRaw(disk) : TRUE)
        /\ (rs.err # nil => ~writeErr)
        /\ op' = "export"
        /\ upgraded' = upgraded
        /\ inp' = [NoInput EXCEPT !.cfgErr = cfgErr, !.lsr = lsr, !.writeErr = writeErr]
        /\ log' = {}
        /\ disk' = disk
        /\ IF rs.err # nil
           THEN /\ ret' = [err |-> rs.err, state |-> rs.state, current |-> rs.current]
                /\ calls' = [NoCalls EXCEPT !.migrate = rs.migrate]
                /\ UNCHANGED <<sink, sinkFresh>>
           ELSE /\ calls' = [NoCalls EXCEPT !.migrate = rs.migrate,
                                            !.exportState = <<rs.state>>]
                /\ IF writeErr
                   THEN /\ ret' = [err |-> errWrite, state |-> rs.state, current |-> rs.current]
                        /\ sink' = <<>>
                        /\ sinkFresh' = FALSE
                   ELSE /\ ret' = [err |-> nil, state |-> rs.state, current |-> rs.current]
                        /\ \E list \in Lists(rs.state) : sink' = exportState(list)
                        /\ sinkFresh' = TRUE

\* the files an operator may hand to import: every well-formed list, the same
\* cut short, and the same with a malformed first record
ImportSources ==
    LET good == {jsonEncode(l) : l \in SeqsUpTo(Pins, MaxPins)} IN
    good
    \cup {SubSeq(g, 1, Len(g) - 1) : g \in good}
    \cup {[g EXCEPT ![2] = 0] : g \in {h \in good : Len(h) > 2}}

cidsOf(l) == {l[i][1] : i \in 1..Len(l)}

stateImportFrom(sources, fresh, cancels) ==
    /\ op = "idle"
    /\ UNCHANGED utilVars
    /\ \E cfgErr \in BOOLEAN :
       \E source \in IF cfgErr THEN {CHOOSE x \in sources : TRUE} ELSE sources :
       LET dec == jsonDecode(source) IN
       \E addFail \in IF cfgErr \/ dec.err # nil THEN {{}} ELSE SUBSET cidsOf(dec.pins) :
       LET imp == importPins(dec.pins, addFail)
           reached == ~cfgErr /\ dec.err = nil /\ imp.err = nil
       IN
       \E pstore \in IF reached THEN Peerstores ELSE {<<>>},
          saveErr \in IF reached THEN BOOLEAN ELSE {FALSE},
          cancelled \in IF reached THEN cancels ELSE {FALSE} :
        LET peers == raftPeers(pstore, Self)
            sv == SnapshotSave(disk, imp.state, peers, saveErr)
            base == [err |-> nil, state |-> NilState, current |-> FALSE]
        IN
        /\ op' = "import"
        /\ upgraded' = NotUpgraded
        /\ inp' = [NoInput EXCEPT !.cfgErr = cfgErr, !.source = source, !.addFail = addFail,
                                  !.pstore = pstore, !.saveErr = saveErr, !.fresh = fresh,
                                  !.prev = snapshotKind(disk), !.cancelled = cancelled]
        /\ log' = {}
        /\ sink' = sink
        /\ IF cfgErr
           THEN /\ ret' = [base EXCEPT !.err = errConfig]
                /\ calls' = NoCalls
                /\ UNCHANGED <<disk, sinkFresh>>
           ELSE IF dec.err # nil
           THEN /\ ret' = [base EXCEPT !.err = dec.err]
                /\ calls' = NoCalls
                /\ UNCHANGED <<disk, sinkFresh>>
           ELSE IF imp.err # nil
           THEN /\ ret' = [base EXCEPT !.err = imp.err]
                /\ calls' = [NoCalls EXCEPT !.add = imp.added]
                /\ UNCHANGED <<disk, sinkFresh>>
           ELSE /\ ret' = [base EXCEPT !.err = sv.err, !.state = imp.state]
                /\ calls' = [NoCalls EXCEPT !.add = imp.added,
                                            !.save = <<[state |-> imp.state, peers |-> peers]>>]
                /\ disk' = sv.disk
                /\ sinkFresh' = (sinkFresh /\ sv.err # nil)

\* import of a file the operator supplies
stateImport == stateImportFrom(ImportSources, FALSE, {FALSE})

\* the same under a context that may be cancelled once every record is added
stateImportCancellable == stateImportFrom(ImportSources, FALSE, BOOLEAN)

\* import of the file the last export wrote
stateImportExported == stateImportFrom({sink}, sinkFresh, {FALSE})

validate ==
    /\ op = "idle"
    /\ UNCHANGED utilVars
    /\ \E lsr \in LastStateRaw(disk) :
        LET v == validateVersion(lsr) IN
        /\ op' = "validate"
        /\ upgraded' = upgraded
        /\ inp' = [NoInput EXCEPT !.lsr = lsr]
        /\ ret' = [NoRet EXCEPT !.err = v.err]
        /\ calls' = NoCalls
        /\ log' = v.log
        /\ UNCHANGED <<disk, sink, sinkFresh>>

\* mutant: the notice is logged whether or not the rotation succeeded
cleanupState_alwaysNotice ==
    /\ op = "idle"
    /\ UNCHANGED utilVars
    /\ \E cleanErr \in BOOLEAN :
        LET c == CleanupRaft(disk, cleanErr) IN
        /\ op' = "cleanup"
        /\ inp' = [NoInput EXCEPT !.cleanErr = cleanErr]
        /\ ret' = [NoRet EXCEPT !.err = c.err]
        /\ calls' = [NoCalls EXCEPT !.cleanup = 1]
        /\ log' = {"folder has been rotated"}
        /\ disk' = c.disk
        /\ upgraded' = NotUpgraded
        /\ sink' = sink
        /\ sinkFresh' = (sinkFresh /\ c.err # nil)

cleanupState ==
    /\ op = "idle"
    /\ UNCHANGED utilVars
    /\ \E cleanErr \in BOOLEAN :
        LET c == CleanupRaft(disk, cleanErr) IN
        /\ op' = "cleanup"
        /\ inp' = [NoInput EXCEPT !.cleanErr = cleanErr]
        /\ ret' = [NoRet EXCEPT !.err = c.err]
        /\ calls' = [NoCalls EXCEPT !.cleanup = 1]
        /\ log' = IF c.err = nil THEN {"folder has been rotated"} ELSE {}
        /\ disk' = c.disk
        /\ upgraded' = NotUpgraded
        /\ sink' = sink
        /\ sinkFresh' = (sinkFresh /\ c.err # nil)

\* the command has returned; the next one starts from the data directory alone
Return ==
    /\ op # "idle"
    /\ UNCHANGED utilVars
    /\ upgraded' = (IF op = "upgrade" THEN upgraded ELSE NotUpgraded)
    /\ op' = "idle"
    /\ inp' = NoInput
    /\ ret' = NoRet
    /\ calls' = NoCalls
    /\ log' = {}
    /\ sink' = <<>>
    /\ sinkFresh' = FALSE
    /\ disk' = disk

\* the command has returned and the exported file stays where it was written
ReturnKeepingFile ==
    /\ op # "idle"
    /\ UNCHANGED utilVars
    /\ upgraded' = (IF op = "upgrade" THEN upgraded ELSE NotUpgraded)
    /\ op' = "idle"
    /\ inp' = NoInput
    /\ ret' = NoRet
    /\ calls' = NoCalls
    /\ log' = {}
    /\ UNCHANGED <<disk, sink, sinkFresh>>

Next ==
    \/ restore
    \/ upgrade
    \/ export
    \/ stateImport
    \/ validate
    \/ cleanupState
    \/ Return

Spec == Init /\ [][Next]_vars

\* export, then import of the exported file, with the other commands between
NextRoundTrip ==
    \/ export
    \/ stateImportExported
    \/ upgrade
    \/ validate
    \/ cleanupState
    \/ ReturnKeepingFile

\* here no operator-supplied file populates the data directory, so the
\* snapshots left behind are one byte longer
InitRoundTrip ==
    /\ disk \in InitDisks \cup {[exists |-> TRUE, raw |-> b] : b \in [1..(MaxLen + 1) -> Bytes]}
    /\ op = "idle"
    /\ inp = NoInput
    /\ ret = NoRet
    /\ calls = NoCalls
    /\ log = {}
    /\ sink = <<>>
    /\ sinkFresh = FALSE
    /\ upgraded = NotUpgraded
    /\ InitUtil

SpecRoundTrip == InitRoundTrip /\ [][NextRoundTrip]_vars

\* upgrade and import under a context that may be cancelled between stages
NextCancel ==
    \/ upgradeCancellable
    \/ stateImportCancellable
    \/ Return

SpecCancel == Init /\ [][NextCancel]_vars

\* ------------------------------------------------------------ config.String
\* A reflected value is a record tagged with its kind. The string String
\* returns is kept as the sequence of its pieces: padding, field names,
\* separators and leaf values; the empty string is the empty sequence.
Str(s) == [kind |-> "string", s |-> s]
Struct(fields) == [kind |-> "struct", fields |-> fields]
Slice(elems) == [kind |-> "slice", elems |-> elems]
MapOf(elems) == [kind |-> "map", elems |-> elems]
Ptr(elem) == [kind |-> "ptr", elem |-> elem]

\* func in(arr []string, a string) bool; a nil arr is the empty sequence
in(arr, a) == \E i \in 1..Len(arr) : arr[i] = a

RECURSIVE sType(_, _, _)
RECURSIVE structFields(_, _, _)
RECURSIVE sliceElems(_, _)

\* the loop over the fields of a struct
structFields(fields, hidden, childPadding) ==
    IF fields = <<>> THEN <<>>
    ELSE LET field == Head(fields)
             rest == structFields(Tail(fields), hidden, childPadding)
         IN
         IF in(hidden, field.name) THEN rest
         ELSE LET val ==
                    IF field.val.kind \in {"struct", "slice", "map"}
                    THEN sType(field.val, hidden, childPadding)
                    ELSE IF field.val.kind = "ptr"
                    THEN sType(field.val.elem, hidden, childPadding)
                    ELSE sType(field.val, <<>>, <<>>)
              IN childPadding \o <<field.name, " : ">> \o val \o <<",">> \o rest

\* the loop over the elements of a slice (and over the values of a map)
sliceElems(elems, slicePadding) ==
    IF elems = <<>> THEN <<>>
    ELSE slicePadding \o sType(Head(elems), <<>>, <<>>) \o <<",">>
            \o sliceElems(Tail(elems), slicePadding)

\* the Map and Ptr cases build result and leave the switch without returning
\* it: the function ends in return ""
sType(v, hidden, padding) ==
    IF v.kind = "struct"
    THEN <<"{">> \o structFields(v.fields, hidden, padding \o <<"  ">>) \o padding \o <<"}">>
    ELSE IF v.kind = "slice"
    THEN <<"[">> \o sliceElems(v.elems, padding \o <<"  ">>) \o padding \o <<"]">>
    ELSE IF v.kind = "map"
    THEN LET result == <<"{">> \o sliceElems(v.elems, padding \o <<"  ">>) \o padding \o <<"}">>
         IN <<>>
    ELSE IF v.kind = "ptr"
    THEN LET result == sType(v.elem, hidden, padding) IN <<>>
    ELSE IF v.kind = "string"
    THEN <<v.s>>
    ELSE <<"unexpected kind">>

\* func String(cfg interface{}, hidden []string) string
StringOf(cfg, hidden) == sType(cfg, hidden, <<>>)

\* deepest nesting of the configuration values
MaxDepth == 3

Kinds == {"struct", "ptr", "slice", "map"}

\* a component configuration: a name and a secret
Leaf(secret) ==
    Struct(<<[name |-> "Name", val |-> Str("node")],
             [name |-> "Secret", val |-> Str(secret)]>>)

\* the configuration reached through path: inside a field of a struct, behind
\* a pointer, as the element of a slice, as the value of a map
RECURSIVE Config(_, _)
Config(path, secret) ==
    IF path = <<>> THEN Leaf(secret)
    ELSE LET inner == Config(Tail(path), secret)
             k == Head(path)
         IN IF k = "struct" THEN Struct(<<[name |-> "Inner", val |-> inner]>>)
            ELSE IF k = "ptr" THEN Ptr(inner)
            ELSE IF k = "slice" THEN Slice(<<inner>>)
            ELSE MapOf(<<inner>>)

\* the hidden lists tried; each names the field the two values differ in
HiddenLists == {<<"Secret">>, <<"Name", "Secret">>, <<"Secret", "Inner">>}

NoString == [called |-> FALSE, path |-> <<>>, hidden |-> <<>>]

\* String called on two configurations that differ only in the contents of
\* the field named Secret
String ==
    /\ ~strIn.called
    /\ \E path \in SeqsUpTo(Kinds, MaxDepth), hidden \in HiddenLists :
        /\ strIn' = [called |-> TRUE, path |-> path, hidden |-> hidden]
        /\ strOut' = [a |-> StringOf(Config(path, "secretA"), hidden),
                      b |-> StringOf(Config(path, "secretB"), hidden)]
    /\ UNCHANGED <<vars, saver, chans, notifier, listener>>

StringReturn ==
    /\ strIn.called
    /\ strIn' = NoString
    /\ strOut' = [a |-> <<>>, b |-> <<>>]
    /\ UNCHANGED <<vars, saver, chans, notifier, listener>>

\* no command of state.go running, no snapshot in the data directory
InitNoCommand ==
    /\ disk = [exists |-> FALSE, raw |-> <<>>]
    /\ op = "idle"
    /\ inp = NoInput
    /\ ret = NoRet
    /\ calls = NoCalls
    /\ log = {}
    /\ sink = <<>>
    /\ sinkFresh = FALSE
    /\ upgraded = NotUpgraded
    /\ InitUtil

NextString ==
    \/ String
    \/ StringReturn

SpecString == InitNoCommand /\ [][NextString]_utilVars

\* ------------------------------------------------------------ config.Saver
\* One goroutine calls NotifySave, another calls SaveCh and receives from the
\* channel it was given. Saver has no lock: each read and each write of
\* sv.save is a step of its own, and the steps of the two goroutines
\* interleave freely.

\* make(chan struct{}, 10)
NotifyCap == 10
\* make(chan struct{})
SaveChCap == 0

\* make: a new channel, known by its index in chans
MakeChan(cap, by) == Append(chans, [cap |-> cap, len |-> 0, by |-> by])

\* if sv.save == nil
NotifySave_check ==
    /\ notifier.pc = "idle"
    /\ notifier' = [pc |-> IF saver.save = 0 THEN "make" ELSE "select", out |-> "none"]
    /\ UNCHANGED <<vars, saver, chans, listener, strIn, strOut>>

\* sv.save = make(chan struct{}, 10)
NotifySave_make ==
    /\ notifier.pc = "make"
    /\ chans' = MakeChan(NotifyCap, "NotifySave")
    /\ saver' = [save |-> Len(chans) + 1]
    /\ notifier' = [notifier EXCEPT !.pc = "select"]
    /\ UNCHANGED <<vars, listener, strIn, strOut>>

\* mutant: a select without the default case, which waits until it can send
NotifySave_selectBlocking ==
    /\ notifier.pc = "select"
    /\ LET ch == saver.save IN
       IF listener.waiting /\ listener.ch = ch
       THEN /\ listener' = [listener EXCEPT !.waiting = FALSE]
            /\ notifier' = [pc |-> "idle", out |-> "delivered"]
            /\ chans' = chans
       ELSE /\ chans[ch].len < chans[ch].cap
            /\ chans' = [chans EXCEPT ![ch].len = @ + 1]
            /\ notifier' = [pc |-> "idle", out |-> "queued"]
            /\ listener' = listener
    /\ UNCHANGED <<vars, saver, strIn, strOut>>

\* select { case sv.save <- struct{}{}: default: }: the send goes to a receiver
\* blocked on the channel, else into the buffer when there is room, else the
\* default case runs and the signal is dropped
NotifySave_select ==
    /\ notifier.pc = "select"
    /\ LET ch == saver.save IN
       IF listener.waiting /\ listener.ch = ch
       THEN /\ listener' = [listener EXCEPT !.waiting = FALSE]
            /\ notifier' = [pc |-> "idle", out |-> "delivered"]
            /\ chans' = chans
       ELSE IF chans[ch].len < chans[ch].cap
       THEN /\ chans' = [chans EXCEPT ![ch].len = @ + 1]
            /\ notifier' = [pc |-> "idle", out |-> "queued"]
            /\ listener' = listener
       ELSE /\ notifier' = [pc |-> "idle", out |-> "dropped"]
            /\ UNCHANGED <<chans, listener>>
    /\ UNCHANGED <<vars, saver, strIn, strOut>>

\* if sv.save == nil
SaveCh_check ==
    /\ listener.pc = "idle"
    /\ ~listener.waiting
    /\ listener' = [listener EXCEPT !.pc = IF saver.save = 0 THEN "make" ELSE "return"]
    /\ UNCHANGED <<vars, saver, chans, notifier, strIn, strOut>>

\* mutant: SaveCh makes a channel with the buffer NotifySave gives it
SaveCh_makeBuffered ==
    /\ listener.pc = "make"
    /\ chans' = MakeChan(NotifyCap, "SaveCh")
    /\ saver' = [save |-> Len(chans) + 1]
    /\ listener' = [listener EXCEPT !.pc = "return"]
    /\ UNCHANGED <<vars, notifier, strIn, strOut>>

\* sv.save = make(chan struct{})
SaveCh_make ==
    /\ listener.pc = "make"
    /\ chans' = MakeChan(SaveChCap, "SaveCh")
    /\ saver' = [save |-> Len(chans) + 1]
    /\ listener' = [listener EXCEPT !.pc = "return"]
    /\ UNCHANGED <<vars, notifier, strIn, strOut>>

\* return sv.save
SaveCh_return ==
    /\ listener.pc = "return"
    /\ listener' = [listener EXCEPT !.pc = "idle", !.ch = saver.save]
    /\ UNCHANGED <<vars, saver, chans, notifier, strIn, strOut>>

\* <-ch on the channel SaveCh returned: takes a pending signal, or blocks
\* until a send hands one over
Receive ==
    /\ listener.pc = "idle"
    /\ listener.ch # 0
    /\ ~listener.waiting
    /\ IF chans[listener.ch].len > 0
       THEN /\ chans' = [chans EXCEPT ![listener.ch].len = @ - 1]
            /\ listener' = listener
       ELSE /\ listener' = [listener EXCEPT !.waiting = TRUE]
            /\ chans' = chans
    /\ UNCHANGED <<vars, saver, notifier, strIn, strOut>>

NextSaver ==
    \/ NotifySave_check
    \/ NotifySave_make
    \/ NotifySave_select
    \/ SaveCh_check
    \/ SaveCh_make
    \/ SaveCh_return
    \/ Receive

SpecSaver == InitNoCommand /\ [][NextSaver]_utilVars

\* ------------------------------------------------------------ claims
Range(f) == {f[i] : i \in 1..Len(f)}

\* the arguments of the last command reached the decode of raw snapshot bytes
ReachedDecode ==
    /\ ~inp.cfgErr
    /\ inp.lsr.exists
    /\ inp.lsr.err = nil
    /\ ~inp.lsr.r.bad

RawOf(i) == i.lsr.r.buf

DecodableAtCurrent(raw) ==
    raw # <<>> /\ raw[1] = Version /\ DecodePins(Tail(raw), {}).ok

DecodableAtOlder(raw) ==
    raw # <<>> /\ raw[1] \in 1..(Version - 1) /\ DecodePinsV1(Tail(raw), {}).ok

\* C1: restoreStateFromDisk fails with errNoSnapshot when LastStateRaw reports
\* that no snapshot exists, and whenever LastStateRaw returns a read error it
\* returns that error and not errNoSnapshot, for every combination of the
\* exists flag and the error.
C1_RestoreSurfacesReadError ==
    (op = "restore" /\ ~inp.cfgErr) =>
        /\ (inp.lsr.err # nil => ret.err = inp.lsr.err)
        /\ (~inp.lsr.exists /\ inp.lsr.err = nil => ret.err = errNoSnapshot)

\* C2: validateVersion returns no error exactly when (1) no snapshot is
\* present and the read reported no error, or (2) a snapshot is present,
\* decodes without error and has the current version.
C2_ValidatePassesExactly ==
    op = "validate" =>
        LET l == inp.lsr
            u == Unmarshal(l.r)
        IN (ret.err = nil) <=>
              \/ (~l.exists /\ l.err = nil)
              \/ (l.exists /\ l.err = nil /\ u.err = nil /\ u.state.version = Version)

C2_Witness ==
    op = "validate" /\ ret.err = nil /\ inp.lsr.exists /\ disk.raw[1] = Version

\* C3: validateVersion fails with the outdated-state error if and only if a
\* snapshot is present, decodes and has another version than the current one
\* (and only then prints the upgrade guidance); an I/O or decode error while
\* the snapshot is known to exist fails with another error, logged as
\* potential corruption.
C3_ValidateClassifies ==
    op = "validate" =>
        LET l == inp.lsr
            u == Unmarshal(l.r)
            outdated == l.exists /\ l.err = nil /\ u.err = nil /\ u.state.version # Version
            broken == l.exists /\ (l.err # nil \/ u.err # nil)
        IN /\ (ret.err = errOutdated) <=> outdated
           /\ ("out of date state; run state upgrade" \in log) <=> outdated
           /\ broken => /\ ret.err \notin {nil, errOutdated}
                        /\ ret.err = (IF l.err # nil THEN l.err ELSE u.err)
                        /\ log = {"snapshot potentially corrupt"}

C3_Witness ==
    /\ op = "validate"
    /\ inp.lsr.exists
    /\ inp.lsr.err = nil
    /\ ret.err = errDecode
    /\ log = {"snapshot potentially corrupt"}

\* C4: for raw snapshot bytes decodable at the current version,
\* restoreStateFromDisk returns isCurrent = true, no error and a state that
\* lists the same records as a direct decode of the bytes, and Migrate is not
\* called.
C4_RestoreCurrent ==
    (op = "restore" /\ ReachedDecode /\ DecodableAtCurrent(RawOf(inp))) =>
        /\ ret.err = nil
        /\ ret.current
        /\ Lists(ret.state) = Lists(Unmarshal(NewReader(RawOf(inp))).state)
        /\ calls.migrate = <<>>

C4_Witness ==
    /\ op = "restore"
    /\ ReachedDecode
    /\ DecodableAtCurrent(RawOf(inp))
    /\ ret.current
    /\ ret.state.pins # {}

\* C5: for raw snapshot bytes at a known older version, restoreStateFromDisk
\* returns isCurrent = false and a state at the current version, from exactly
\* one Migrate call whose reader is a fresh cursor at the start of the same
\* bytes; the state is a function of the bytes alone.
C5_RestoreMigrates ==
    (op = "restore" /\ ReachedDecode /\ DecodableAtOlder(RawOf(inp))) =>
        /\ ret.err = nil
        /\ ~ret.current
        /\ ret.state.version = Version
        /\ calls.migrate = <<[buf |-> disk.raw, pos |-> 0, bad |-> FALSE]>>
        /\ ret.state.pins = DecodePinsV1(Tail(disk.raw), {}).pins

C5_Witness ==
    /\ op = "restore"
    /\ ReachedDecode
    /\ DecodableAtOlder(RawOf(inp))
    /\ ~ret.current
    /\ ret.state.pins # {}

\* C6: every state passed to raft.SnapshotSave (by upgrade or stateImport) or
\* to exportState (by export) has the current schema version, whatever the
\* version of the snapshot on disk; so has every state restoreStateFromDisk
\* returns without error.
C6_ConsumersSeeCurrentVersion ==
    /\ \A i \in 1..Len(calls.save) : calls.save[i].state.version = Version
    /\ \A i \in 1..Len(calls.exportState) : calls.exportState[i].version = Version
    /\ (op = "restore" /\ ret.err = nil) => ret.state.version = Version

C6_Witness ==
    /\ op = "export"
    /\ ReachedDecode
    /\ RawOf(inp) # <<>>
    /\ RawOf(inp)[1] # Version
    /\ Len(calls.exportState) = 1

\* C7: in every raft.SnapshotSave call of upgrade and stateImport the
\* membership list holds the local identity and every identity loaded from
\* the peer store; with an empty peer store it is the local identity alone.
C7_MembershipHasSelf ==
    \A i \in 1..Len(calls.save) :
        LET peers == calls.save[i].peers IN
        /\ Self \in Range(peers)
        /\ Range(inp.pstore) \subseteq Range(peers)
        /\ Range(peers) \subseteq Range(inp.pstore) \cup {Self}
        /\ inp.pstore = <<>> => peers = <<Self>>

C7_Witness ==
    /\ op = "upgrade"
    /\ Len(calls.save) = 1
    /\ inp.pstore = <<>>
    /\ disk.exists

\* the index of the first record of pins whose Add fails, 0 when none does
FirstFailure(pins, addFail) ==
    IF \E i \in 1..Len(pins) : pins[i][1] \in addFail
    THEN CHOOSE i \in 1..Len(pins) :
            /\ pins[i][1] \in addFail
            /\ \A j \in 1..(i - 1) : pins[j][1] \notin addFail
    ELSE 0

\* C8: stateImport fails fast: on a malformed source it returns the decode
\* error and adds nothing; on the first record whose Add fails it returns
\* that error having added every record before it and none after it; in both
\* cases raft.SnapshotSave is not called and the snapshot on disk is what it
\* was. Without such a failure every record of the source is added, in order.
C8_ImportFailsFast ==
    [][(op' = "import" /\ ~inp'.cfgErr) =>
          LET dec == jsonDecode(inp'.source)
              k == FirstFailure(dec.pins, inp'.addFail)
          IN IF dec.err # nil
             THEN /\ ret'.err = dec.err
                  /\ calls'.add = <<>>
                  /\ calls'.save = <<>>
                  /\ disk' = disk
             ELSE IF k # 0
             THEN /\ ret'.err = errAdd
                  /\ calls'.add = SubSeq(dec.pins, 1, k)
                  /\ calls'.save = <<>>
                  /\ disk' = disk
             ELSE /\ calls'.add = dec.pins
                  /\ Len(calls'.save) = 1]_vars

C8_Witness ==
    /\ op = "import"
    /\ ret.err = errAdd
    /\ Len(jsonDecode(inp.source).pins) = 2
    /\ Len(calls.add) = 1
    /\ disk.exists

\* the record set of the state held in the snapshot d
RecordsOf(d) ==
    restoreStateFromDisk(FALSE, [exists |-> d.exists, err |-> nil, r |-> NewReader(d.raw)]).state.pins

\* C9: importing the list that export wrote from the snapshot now on disk
\* persists a state at the current version whose record set is the record
\* set of that snapshot, empty or not.
C9_ExportImportRoundTrip ==
    [][(op' = "import" /\ inp'.fresh /\ ret'.err = nil) =>
          /\ disk'.exists
          /\ DecodableAtCurrent(disk'.raw)
          /\ RecordsOf(disk') = RecordsOf(disk)
          /\ ret'.state.pins = RecordsOf(disk)]_vars

C9_Witness ==
    /\ op = "import"
    /\ inp.fresh
    /\ ret.err = nil
    /\ Cardinality(ret.state.pins) = 2
    /\ RecordsOf(disk) = ret.state.pins

\* C10: restoreStateFromDisk, export and validateVersion only read the
\* durable state: in every outcome the snapshot on disk is unchanged and
\* neither raft.SnapshotSave nor the cleanup primitive is called.
C10_ReadsOnly ==
    [][op' \in {"restore", "export", "validate"} =>
          /\ disk' = disk
          /\ calls'.save = <<>>
          /\ calls'.cleanup = 0]_vars

C10_Witness ==
    /\ op = "export"
    /\ ReachedDecode
    /\ ret.err = nil
    /\ ~ret.current
    /\ ret.state.pins # {}

\* C11: when the rotation of cleanupState fails, the error is returned and
\* the data directory is left as it was; the notice that the folder has been
\* rotated is logged exactly when the rotation succeeded.
C11_CleanupReportsFailure ==
    [][op' = "cleanup" =>
          /\ calls'.cleanup = 1
          /\ ret'.err = (IF inp'.cleanErr THEN errCleanup ELSE nil)
          /\ (ret'.err # nil => disk' = disk)
          /\ ("folder has been rotated" \in log') <=> (ret'.err = nil)]_vars

C11_Witness ==
    /\ op = "cleanup"
    /\ inp.cleanErr
    /\ ret.err = errCleanup
    /\ disk.exists
    /\ log = {}

\* the command got as far as decoding the raw snapshot bytes
ReachedDecodeOf(i) ==
    /\ ~i.cfgErr
    /\ i.lsr.exists
    /\ i.lsr.err = nil
    /\ ~i.lsr.r.bad

\* C13: a run of upgrade or stateImport calls raft.SnapshotSave at most once,
\* and only after every earlier stage succeeded (config loads, restore of an
\* older snapshot or decode of the source, every Add); the snapshot on disk
\* changes only by that call (or by the rotation of cleanupState); upgrade on
\* a snapshot at the current version returns success without the call.
C13_PersistAtMostOnce ==
    [][/\ Len(calls'.save) <= 1
       /\ calls'.save # <<>> =>
            /\ op' \in {"upgrade", "import"}
            /\ ~inp'.cfgErr
            /\ op' = "upgrade" =>
                 /\ ReachedDecodeOf(inp')
                 /\ DecodableAtOlder(RawOf(inp'))
                 /\ ~inp'.cfgErr2
            /\ op' = "import" =>
                 /\ jsonDecode(inp'.source).err = nil
                 /\ FirstFailure(jsonDecode(inp'.source).pins, inp'.addFail) = 0
       /\ disk' # disk => (Len(calls'.save) = 1 \/ op' = "cleanup")
       /\ (op' = "upgrade" /\ ReachedDecodeOf(inp') /\ DecodableAtCurrent(RawOf(inp'))) =>
            /\ ret'.err = nil
            /\ calls'.save = <<>>
            /\ disk' = disk]_vars

C13_Witness ==
    /\ op = "upgrade"
    /\ ReachedDecode
    /\ DecodableAtCurrent(RawOf(inp))
    /\ ret.err = nil
    /\ ret.state.pins # {}
    /\ calls.save = <<>>

\* C14: when the raw snapshot bytes decode neither at the current version nor
\* at a known older one, restoreStateFromDisk returns a nil state,
\* isCurrent = false and the decode or migration error; upgrade returns that
\* error without calling raft.SnapshotSave and export returns it without
\* writing to the sink.
C14_DecodeFailureIsFatal ==
    [][(/\ op' \in {"restore", "upgrade", "export"}
        /\ ReachedDecodeOf(inp')
        /\ ~DecodableAtCurrent(RawOf(inp'))
        /\ ~DecodableAtOlder(RawOf(inp'))) =>
          /\ ret'.err = (IF Unmarshal(NewReader(RawOf(inp'))).err # nil
                         THEN errDecode ELSE errMigrate)
          /\ ret'.state = NilState
          /\ ~ret'.current
          /\ calls'.save = <<>>
          /\ calls'.exportState = <<>>
          /\ sink' = sink
          /\ disk' = disk]_vars

C14_Witness ==
    /\ op = "upgrade"
    /\ ReachedDecode
    /\ RawOf(inp) # <<>>
    /\ RawOf(inp)[1] = Version + 1
    /\ ret.err = errMigrate

\* the records a list leaves in a set keyed by cid: the last one of each cid
LastPerCid(pins) ==
    {pins[i] : i \in {k \in 1..Len(pins) : \A j \in (k + 1)..Len(pins) : pins[j][1] # pins[k][1]}}

\* C19: stateImport replaces, it does not merge: after a successful import
\* the snapshot on disk is at the current version and holds exactly the
\* records of the source, whatever the data directory held before; and an
\* import whose config, source, Adds and save do not fail succeeds whether the
\* previous snapshot was absent, current, outdated or undecodable.
C19_ImportReplaces ==
    [][(op' = "import" /\ ~inp'.cfgErr) =>
          LET dec == jsonDecode(inp'.source) IN
          /\ inp'.prev = snapshotKind(disk)
          /\ (dec.err = nil /\ inp'.addFail = {} /\ ~inp'.saveErr) => ret'.err = nil
          /\ ret'.err = nil =>
               /\ disk'.exists
               /\ snapshotKind(disk') = "current"
               /\ RecordsOf(disk') = LastPerCid(dec.pins)
               /\ ret'.state.pins = LastPerCid(dec.pins)]_vars

C19_Witness ==
    /\ op = "import"
    /\ ret.err = nil
    /\ inp.prev = "undecodable"
    /\ RecordsOf(disk) # {}

\* C18: an upgrade that succeeds on an older-version snapshot leaves a
\* snapshot at the current version holding the migrated records; the command
\* that follows it, given a readable snapshot, passes when it is
\* validateVersion, returns isCurrent = true with the migrated records when
\* it is restoreStateFromDisk, and returns success without a save and with
\* the snapshot unchanged when it is upgrade again.
C18_UpgradeIdempotent ==
    [][/\ (op' = "upgrade" /\ ret'.err = nil /\ DecodableAtOlder(RawOf(inp'))) =>
            /\ upgraded'.on
            /\ upgraded'.pins = DecodePinsV1(Tail(RawOf(inp')), {}).pins
            /\ disk'.exists
            /\ disk'.raw # <<>>
            /\ disk'.raw[1] = Version
       /\ (upgraded.on /\ ReachedDecodeOf(inp')) =>
            /\ op' = "validate" => ret'.err = nil
            /\ op' = "restore" =>
                 /\ ret'.err = nil
                 /\ ret'.current
                 /\ ret'.state.pins = upgraded.pins
            /\ op' = "upgrade" =>
                 /\ ret'.err = nil
                 /\ calls'.save = <<>>
                 /\ disk' = disk
                 /\ upgraded' = upgraded]_vars

C18_Witness ==
    /\ op = "upgrade"
    /\ upgraded.on
    /\ upgraded.pins # {}
    /\ ReachedDecode
    /\ ret.err = nil
    /\ ret.current
    /\ calls.save = <<>>

\* C15: when the context is cancelled after the restore stage of upgrade (or
\* the decode and add stages of stateImport) has completed and before the
\* persist stage starts, raft.SnapshotSave is not called.
C15_CancelAbortsBeforePersist ==
    inp.cancelled => calls.save = <<>>

\* C12: for two values of cfg that differ only in the contents of a field
\* whose name is listed in hidden, at any nesting depth (nested structs,
\* pointers to structs, structs that are elements of slices or values of
\* maps), String returns the same output, and the output has no entry for a
\* hidden field.
C12_StringHidesHidden ==
    strIn.called =>
        /\ strOut.a = strOut.b
        /\ \A i \in 1..Len(strOut.a) : ~in(strIn.hidden, strOut.a[i])

\* C16: NotifySave never blocks the notifier: whatever the Saver holds (no
\* channel yet, a buffered channel with room, a full buffered channel, the
\* unbuffered channel of SaveCh with no receiver waiting), the step the
\* notifier is at can be taken; and no channel ever holds more than 10
\* pending signals.
C16_NotifyNeverBlocks ==
    /\ notifier.pc = "idle" => ENABLED NotifySave_check
    /\ notifier.pc = "make" => ENABLED NotifySave_make
    /\ notifier.pc = "select" => ENABLED NotifySave_select
    /\ \A c \in 1..Len(chans) : chans[c].len <= chans[c].cap /\ chans[c].len <= 10

C16_Witness ==
    /\ notifier.pc = "idle"
    /\ notifier.out = "dropped"
    /\ saver.save # 0
    /\ chans[saver.save].len = 10

\* C17 as stated: every NotifySave call made while fewer than 10 signals are
\* pending leaves a signal that a later receive obtains, whichever of SaveCh
\* and NotifySave made the channel.
C17_EveryNotifyLeavesSignal ==
    [][(notifier.pc = "select" /\ notifier'.pc = "idle" /\ chans[saver.save].len < 10) =>
          notifier'.out # "dropped"]_utilVars

\* C17 amended: a NotifySave call hands its signal to a receiver blocked on
\* the channel in sv.save; with none blocked it leaves the signal pending
\* exactly when that channel was made by NotifySave and holds fewer than 10
\* signals, and drops it otherwise, so on the channel made by SaveCh a signal
\* sent while no receive is waiting is lost. A pending signal stays until a
\* receive on its channel takes it.
C17_NotifyLeavesSignal ==
    [][/\ (notifier.pc = "select" /\ notifier'.pc = "idle") =>
            LET ch == saver.save IN
            IF listener.waiting /\ listener.ch = ch
            THEN /\ notifier'.out = "delivered"
                 /\ ~listener'.waiting
                 /\ chans' = chans
            ELSE IF chans[ch].by = "NotifySave" /\ chans[ch].len < 10
            THEN /\ notifier'.out = "queued"
                 /\ chans'[ch].len = chans[ch].len + 1
            ELSE /\ notifier'.out = "dropped"
                 /\ chans' = chans
                 /\ listener' = listener
       /\ \A c \in 1..Len(chans) : chans'[c].len < chans[c].len =>
            /\ listener.ch = c
            /\ listener.pc = "idle"
            /\ ~listener.waiting
            /\ notifier' = notifier
            /\ chans'[c].len = chans[c].len - 1]_utilVars

C17_Witness ==
    /\ notifier.pc = "idle"
    /\ notifier.out = "dropped"
    /\ Len(chans) = 1
    /\ chans[1].by = "SaveCh"
    /\ listener.ch = 1
    /\ ~listener.waiting

\* C20: after a first SaveCh call and a first NotifySave call on one Saver,
\* in whatever order their steps interleave, the channel the listener holds
\* is the channel NotifySave sends on.
C20_SameChannel ==
    (listener.pc = "idle" /\ listener.ch # 0 /\ notifier.pc = "idle") =>
        listener.ch = saver.save

====
